---- MODULE Spec2Model ----
(***************************************************************************)
(* Model of asynctest/selector.py: the FileDescriptor allocator, the       *)
(* classification helpers fd() and isfilemock(), the TestSelector          *)
(* multiplexer (optionally wrapping a real selector) and the event         *)
(* injection functions set_read_ready / set_write_ready.                   *)
(***************************************************************************)
EXTENDS Integers, Sequences, FiniteSets, TLC

VARIABLES
    next_fd,     \* FileDescriptor.next_fd (class attribute)
    calls,       \* history of FileDescriptor constructions: [op, n, ret]
    hasBackend,  \* TestSelector._selector is not None
    fd_to_key,   \* TestSelector._fd_to_key (the unified map)
    backend,     \* the wrapped selector's own _fd_to_key
    last,        \* outcome of the most recent TestSelector method call
    ready,       \* loop._ready: tasks handed over by call_soon_threadsafe
    ntodo,       \* tasks left to run in the dispatch cycle in progress
    dispatching, \* a dispatch cycle of the loop is in progress
    callerFed,   \* events the latest injection call fed on the calling thread
    lastTask,    \* outcome of the most recent scheduled task the loop ran
    classified   \* outcome of the most recent fd() / isfilemock() call

vars == <<next_fd, calls, hasBackend, fd_to_key, backend, last,
          ready, ntodo, dispatching, callerFed, lastTask, classified>>

allocVars == <<next_fd, calls>>
selVars   == <<hasBackend, fd_to_key, backend, last>>
loopVars  == <<ready, ntodo, dispatching, callerFed, lastTask>>

----------------------------------------------------------------------------
(* Bounds *)

MaxCalls  == 4   \* FileDescriptor constructions per behaviour
MaxN      == 2   \* largest explicitly supplied integer
MaxReady  == 1   \* tasks pending in loop._ready

EVENT_READ  == 1
EVENT_WRITE == 2

Max(a, b) == IF a >= b THEN a ELSE b

----------------------------------------------------------------------------
(* FileDescriptor *)

\* FileDescriptor.__new__ with the watermark set to the new value instead of
\* the value after it.
FileDescriptorNewOffByOne(nf, args) ==
    LET s == IF args = <<>> THEN nf ELSE args[1]
    IN  [ret |-> s, next_fd |-> Max(nf, s)]

\* FileDescriptor.__new__ without the watermark taking the new value into
\* account.
FileDescriptorNewNoMax(nf, args) ==
    LET s == IF args = <<>> THEN nf ELSE args[1]
    IN  [ret |-> s, next_fd |-> nf + 1]

\* FileDescriptor.__new__(cls, *args): args is <<>> or <<n>>.
FileDescriptorNew(nf, args) ==
    LET s == IF args = <<>> THEN nf ELSE args[1]
    IN  [ret |-> s, next_fd |-> Max(nf + 1, s + 1)]

\* FileDescriptor()
Allocate ==
    /\ Len(calls) < MaxCalls
    /\ LET r == FileDescriptorNew(next_fd, <<>>)
       IN  /\ next_fd' = r.next_fd
           /\ calls' = Append(calls, [op |-> "allocate", n |-> -1, ret |-> r.ret])
    /\ UNCHANGED <<classified, selVars, loopVars>>

\* FileDescriptor(n)
FromValue ==
    /\ Len(calls) < MaxCalls
    /\ \E n \in -1..MaxN :
         LET r == FileDescriptorNew(next_fd, <<n>>)
         IN  /\ next_fd' = r.next_fd
             /\ calls' = Append(calls, [op |-> "fromValue", n |-> n, ret |-> r.ret])
    /\ UNCHANGED <<classified, selVars, loopVars>>

----------------------------------------------------------------------------
(* File objects.  Each is a Python object a test can hand to the module:   *)
(*   mock    a FileMock; fileno() returns FileDescriptor 0                 *)
(*   fdesc   the FileDescriptor object of value 0 itself                   *)
(*   sock    an open socket; fileno() returns the int 0                    *)
(*   int0    the plain int 0                                               *)
(*   closed  a closed socket; fileno() returns -1                          *)
(*   str     an object without a fileno attribute                          *)
(*   badfile a closed file; fileno() raises ValueError                     *)

Objects == {"mock", "fdesc", "sock", "int0", "closed", "str", "badfile"}

\* isinstance(obj, FileDescriptor)
IsFileDescriptor(obj) == obj = "fdesc"

\* isinstance(obj, int)
IsInt(obj) == obj \in {"fdesc", "int0"}

\* int(obj) for the objects that are ints
IntValue(obj) == 0

\* a FileDescriptor that hashes like the int of the same value
SynHashAsInt(n) == <<"int", n>>

\* Dictionary keys: a FileDescriptor hashes unlike the int of the same value.
Syn(n)  == <<"syn", n>>
Real(n) == <<"int", n>>
NoFd    == <<"none", 0>>

\* obj.fileno(): exc is "none", "AttributeError" or "ValueError"
Fileno(obj) ==
    CASE obj = "mock"    -> [exc |-> "none", val |-> Syn(0)]
      [] obj = "sock"    -> [exc |-> "none", val |-> Real(0)]
      [] obj = "closed"  -> [exc |-> "none", val |-> Real(-1)]
      [] obj = "badfile" -> [exc |-> "ValueError", val |-> NoFd]
      [] OTHER           -> [exc |-> "AttributeError", val |-> NoFd]

\* fd() that takes a plain int for a descriptor
fdAcceptInt(fileobj) ==
    IF IsInt(fileobj)
    THEN [exc |-> "none",
          val |-> IF IsFileDescriptor(fileobj) THEN Syn(IntValue(fileobj))
                                               ELSE Real(IntValue(fileobj))]
    ELSE IF Fileno(fileobj).exc = "none"
         THEN [exc |-> "none", val |-> Fileno(fileobj).val]
         ELSE [exc |-> "ValueError", val |-> NoFd]

\* fd(fileobj)
fd(fileobj) ==
    IF IsFileDescriptor(fileobj)
    THEN [exc |-> "none", val |-> Syn(IntValue(fileobj))]
    ELSE IF Fileno(fileobj).exc = "none"
         THEN [exc |-> "none", val |-> Fileno(fileobj).val]
         ELSE [exc |-> "ValueError", val |-> NoFd]

\* isfilemock(obj): val is the returned boolean
isfilemock(obj) ==
    IF IsFileDescriptor(obj)
    THEN [exc |-> "none", val |-> TRUE]
    ELSE CASE Fileno(obj).exc = "none" ->
                [exc |-> "none", val |-> Fileno(obj).val[1] = "syn"]
           [] Fileno(obj).exc = "AttributeError" ->
                [exc |-> "none", val |-> FALSE]
           [] OTHER ->
                [exc |-> Fileno(obj).exc, val |-> FALSE]

\* the record of a call of fn on obj: exc the exception raised, key the
\* descriptor fd() returned, bool the boolean isfilemock() returned
Classified(fn, obj, exc, key, bool) ==
    [fn |-> fn, obj |-> obj, exc |-> exc, key |-> key, bool |-> bool]

NotClassified == Classified("none", "none", "none", <<"none", 0>>, FALSE)

\* fd(obj), for any object
CallFd ==
    /\ \E obj \in Objects :
         classified' = Classified("fd", obj, fd(obj).exc, fd(obj).val, FALSE)
    /\ UNCHANGED <<allocVars, selVars, loopVars>>

\* isfilemock(obj), for any object
CallIsFileMock ==
    /\ \E obj \in Objects :
         classified' = Classified("isfilemock", obj, isfilemock(obj).exc,
                                  <<"none", 0>>, isfilemock(obj).val)
    /\ UNCHANGED <<allocVars, selVars, loopVars>>

----------------------------------------------------------------------------
(* Registration entries and maps *)

Fds == {Syn(0), Real(0)}

\* SelectorKey(fileobj, fd, events, data); NoKey stands for "no entry"/None
NoKey == [fileobj |-> "none", fd |-> NoFd, events |-> 0, data |-> "none"]

SelectorKey(fileobj, k, events, data) ==
    [fileobj |-> fileobj, fd |-> k, events |-> events, data |-> data]

\* {} : a dictionary without entries
EmptyMap == [k \in Fds |-> NoKey]

\* fd in m
Has(m, k) == k \in Fds /\ m[k] # NoKey

\* the entries of a dictionary
Entries(m) == {m[k] : k \in {x \in Fds : m[x] # NoKey}}

\* selectors._BaseSelectorImpl._fileobj_lookup, reached through
\* super()._fileobj_lookup and used by the wrapped selector
BaseLookup(m, obj) ==
    LET direct ==
            IF IsInt(obj)
            THEN [exc |-> "none",
                  val |-> IF IsFileDescriptor(obj) THEN Syn(IntValue(obj))
                                                   ELSE Real(IntValue(obj))]
            ELSE IF Fileno(obj).exc # "none"
                 THEN [exc |-> "ValueError", val |-> NoFd]
                 ELSE IF Fileno(obj).val[2] < 0
                      THEN [exc |-> "ValueError", val |-> NoFd]
                      ELSE [exc |-> "none", val |-> Real(Fileno(obj).val[2])]
        found == {k \in Fds : m[k] # NoKey /\ m[k].fileobj = obj}
    IN  IF direct.exc = "none" THEN direct
        ELSE IF found # {}
             THEN [exc |-> "none", val |-> CHOOSE k \in found : TRUE]
             ELSE direct

\* TestSelector._fileobj_lookup
_fileobj_lookup(m, obj) ==
    LET c == isfilemock(obj)
    IN  IF c.exc # "none" THEN [exc |-> c.exc, val |-> NoFd]
        ELSE IF c.val THEN fd(obj)
        ELSE BaseLookup(m, obj)

\* the lookup a selector uses: TestSelector's override or the base one
Lookup(m, obj, test) == IF test THEN _fileobj_lookup(m, obj) ELSE BaseLookup(m, obj)

Fail(e, m) == [exc |-> e, ret |-> NoKey, map |-> m]

\* _BaseSelectorImpl.register without the check for an existing entry
BaseRegisterNoCheck(m, obj, events, data, l) ==
    IF events \notin 1..3 THEN Fail("ValueError", m)
    ELSE IF l.exc # "none" THEN Fail(l.exc, m)
    ELSE [exc |-> "none", ret |-> SelectorKey(obj, l.val, events, data),
          map |-> [m EXCEPT ![l.val] = SelectorKey(obj, l.val, events, data)]]

\* _BaseSelectorImpl.register: super().register(...) of TestSelector and
\* self._selector.register(...) of the wrapped selector; l is the outcome of
\* the selector's _fileobj_lookup(fileobj)
BaseRegister(m, obj, events, data, l) ==
    IF events \notin 1..3 THEN Fail("ValueError", m)
    ELSE IF l.exc # "none" THEN Fail(l.exc, m)
    ELSE IF Has(m, l.val) THEN Fail("KeyError", m)
    ELSE [exc |-> "none", ret |-> SelectorKey(obj, l.val, events, data),
          map |-> [m EXCEPT ![l.val] = SelectorKey(obj, l.val, events, data)]]

\* _BaseSelectorImpl.unregister that returns None for an absent entry
BaseUnregisterQuiet(m, obj, l) ==
    IF l.exc # "none" THEN Fail(l.exc, m)
    ELSE IF ~Has(m, l.val) THEN [exc |-> "none", ret |-> NoKey, map |-> m]
    ELSE [exc |-> "none", ret |-> m[l.val], map |-> [m EXCEPT ![l.val] = NoKey]]

\* _BaseSelectorImpl.unregister; l is the outcome of _fileobj_lookup(fileobj)
BaseUnregister(m, obj, l) ==
    IF l.exc # "none" THEN Fail(l.exc, m)
    ELSE IF ~Has(m, l.val) THEN Fail("KeyError", m)
    ELSE [exc |-> "none", ret |-> m[l.val], map |-> [m EXCEPT ![l.val] = NoKey]]

\* _BaseSelectorImpl.modify, events changed: after self.unregister(fileobj)
\* returned u, key = self.register(fileobj, events, data)
ReRegister(u, obj, events, data, test) ==
    IF u.exc # "none" THEN u
    ELSE BaseRegister(u.map, obj, events, data, Lookup(u.map, obj, test))

\* _BaseSelectorImpl.modify that ignores the data when the events are the
\* same
BaseModifyEventsOnly(m, obj, events, data, test, l) ==
    IF l.exc # "none" THEN Fail(l.exc, m)
    ELSE IF ~Has(m, l.val) THEN Fail("KeyError", m)
    ELSE IF events # m[l.val].events
         THEN ReRegister(BaseUnregister(m, obj, l), obj, events, data, test)
         ELSE [exc |-> "none", ret |-> m[l.val], map |-> m]

\* _BaseSelectorImpl.modify: unregister then register when the events
\* differ, replace the data otherwise; l is the outcome of
\* _fileobj_lookup(fileobj)
BaseModify(m, obj, events, data, test, l) ==
    IF l.exc # "none" THEN Fail(l.exc, m)
    ELSE IF ~Has(m, l.val) THEN Fail("KeyError", m)
    ELSE IF events # m[l.val].events
         THEN ReRegister(BaseUnregister(m, obj, l), obj, events, data, test)
         ELSE IF data # m[l.val].data
              THEN [exc |-> "none", ret |-> [m[l.val] EXCEPT !.data = data],
                    map |-> [m EXCEPT ![l.val].data = data]]
              ELSE [exc |-> "none", ret |-> m[l.val], map |-> m]

----------------------------------------------------------------------------
(* TestSelector.  Every method is an operator from the state before the    *)
(* call to its outcome: exc the exception raised ("none" when it           *)
(* returns), ret the returned key, map and bmap the unified map and the    *)
(* wrapped selector's map afterwards, fwd whether the wrapped selector was *)
(* called, atcall the unified map's entry for the handle's descriptor at   *)
(* the moment the wrapped selector was called.                             *)

Outcome(e, r, m, b, f, a) ==
    [exc |-> e, ret |-> r, map |-> m, bmap |-> b, fwd |-> f, atcall |-> a]

\* the call raised e before reaching any selector
Raised(e, m, b) == Outcome(e, NoKey, m, b, FALSE, NoKey)

\* key = super().register / unregister / modify (...) returned or raised r
Local(r, b) == Outcome(r.exc, r.ret, r.map, b, FALSE, NoKey)

\* a forwarded call whose returned key is not copied to the unified map
MirrorNot(m, r, a) ==
    IF r.exc # "none" THEN Outcome(r.exc, NoKey, m, r.map, TRUE, a)
    ELSE Outcome("none", r.ret, m, r.map, TRUE, a)

\* key = self._selector.register / modify (...) returned or raised r, then
\* if key: self._fd_to_key[key.fd] = key
Mirror(m, r, a) ==
    IF r.exc # "none" THEN Outcome(r.exc, NoKey, m, r.map, TRUE, a)
    ELSE Outcome("none", r.ret, [m EXCEPT ![r.ret.fd] = r.ret], r.map, TRUE, a)

\* a forwarded unregister that leaves the mirror of the returned key
UnmirrorKeep(m, r) ==
    IF r.exc # "none" THEN Outcome(r.exc, NoKey, m, r.map, TRUE, NoKey)
    ELSE Outcome("none", r.ret, m, r.map, TRUE, NoKey)

\* key = self._selector.unregister(fileobj) returned or raised r, then
\* if key and key.fd in self._fd_to_key: del self._fd_to_key[key.fd]
Unmirror(m, r) ==
    IF r.exc # "none" THEN Outcome(r.exc, NoKey, m, r.map, TRUE, NoKey)
    ELSE Outcome("none", r.ret,
                 IF Has(m, r.ret.fd) THEN [m EXCEPT ![r.ret.fd] = NoKey] ELSE m,
                 r.map, TRUE, NoKey)

\* TestSelector.register that forwards every object to the wrapped selector
RegisterForwardAll(m, b, hb, obj, events, data) ==
    IF isfilemock(obj).exc # "none" THEN Raised(isfilemock(obj).exc, m, b)
    ELSE IF ~hb
    THEN Local(BaseRegister(m, obj, events, data, _fileobj_lookup(m, obj)), b)
    ELSE Mirror(m, BaseRegister(b, obj, events, data, BaseLookup(b, obj)), NoKey)

\* TestSelector.register
Register(m, b, hb, obj, events, data) ==
    IF isfilemock(obj).exc # "none" THEN Raised(isfilemock(obj).exc, m, b)
    ELSE IF isfilemock(obj).val \/ ~hb
    THEN Local(BaseRegister(m, obj, events, data, _fileobj_lookup(m, obj)), b)
    ELSE Mirror(m, BaseRegister(b, obj, events, data, BaseLookup(b, obj)), NoKey)

\* TestSelector.unregister
Unregister(m, b, hb, obj) ==
    IF isfilemock(obj).exc # "none" THEN Raised(isfilemock(obj).exc, m, b)
    ELSE IF isfilemock(obj).val \/ ~hb
    THEN Local(BaseUnregister(m, obj, _fileobj_lookup(m, obj)), b)
    ELSE Unmirror(m, BaseUnregister(b, obj, BaseLookup(b, obj)))

\* the wrapped selector was called while the unified map was m1 and its
\* outcome r is mirrored; k is the handle's descriptor
MirrorAt(m1, r, k) == Mirror(m1, r, m1[k])

\* the forwarded branch of modify without deleting the mirror first
ModifyForwardNoDel(m, b, obj, events, data, l) ==
    IF l.exc # "none" THEN Raised(l.exc, m, b)
    ELSE MirrorAt(m, BaseModify(b, obj, events, data, FALSE, BaseLookup(b, obj)),
                  l.val)

\* the forwarded branch of modify that puts the deleted mirror back when the
\* wrapped selector raises
ModifyForwardRestore(m, b, obj, events, data, l) ==
    IF l.exc # "none" THEN Raised(l.exc, m, b)
    ELSE IF BaseModify(b, obj, events, data, FALSE, BaseLookup(b, obj)).exc # "none"
    THEN Outcome(BaseModify(b, obj, events, data, FALSE, BaseLookup(b, obj)).exc,
                 NoKey, m,
                 BaseModify(b, obj, events, data, FALSE, BaseLookup(b, obj)).map,
                 TRUE, NoKey)
    ELSE MirrorAt(IF Has(m, l.val) THEN [m EXCEPT ![l.val] = NoKey] ELSE m,
                  BaseModify(b, obj, events, data, FALSE, BaseLookup(b, obj)),
                  l.val)

\* TestSelector.modify, the branch that forwards: l is the outcome of
\* fd = self._fileobj_lookup(fileobj); the mirror is deleted, then
\* key = self._selector.modify(fileobj, events, data) is mirrored
ModifyForward(m, b, obj, events, data, l) ==
    IF l.exc # "none" THEN Raised(l.exc, m, b)
    ELSE MirrorAt(IF Has(m, l.val) THEN [m EXCEPT ![l.val] = NoKey] ELSE m,
                  BaseModify(b, obj, events, data, FALSE, BaseLookup(b, obj)),
                  l.val)

\* TestSelector.modify
Modify(m, b, hb, obj, events, data) ==
    IF isfilemock(obj).exc # "none" THEN Raised(isfilemock(obj).exc, m, b)
    ELSE IF isfilemock(obj).val \/ ~hb
    THEN Local(BaseModify(m, obj, events, data, TRUE, _fileobj_lookup(m, obj)), b)
    ELSE ModifyForward(m, b, obj, events, data, _fileobj_lookup(m, obj))

\* a & b on the event masks 0..3
BitAnd(a, b) == (a % 2) * (b % 2) + 2 * ((a \div 2) * (b \div 2))

\* self._selector.select(timeout): the keys the wrapped selector holds whose
\* events meet the descriptors' readiness osready, each with its ready events
BackendSelect(b, osready) ==
    {<<b[k], BitAnd(b[k].events, osready)>> :
        k \in {x \in Fds : b[x] # NoKey /\ BitAnd(b[x].events, osready) # 0}}

\* TestSelector.select: the returned list of (key, events)
Select(b, hb, mask) == IF ~hb THEN {} ELSE BackendSelect(b, mask)

\* TestSelector.close; bfail: the wrapped selector's close() raises
Close(m, b, hb, bfail) ==
    IF hb /\ bfail
    THEN Outcome("OSError", NoKey, m, b, TRUE, NoKey)
    ELSE Outcome("none", NoKey, EmptyMap, IF hb THEN EmptyMap ELSE b, hb, NoKey)

----------------------------------------------------------------------------
(* TestSelector method calls as steps *)

Data == {"a", "b"}

\* the record of a call; undoes: the call is an unregister(obj) that comes
\* right after a register(obj, ...) that returned
Called(op, obj, events, data, r, sel, undoes) ==
    [op |-> op, obj |-> obj, events |-> events, data |-> data,
     exc |-> r.exc, ret |-> r.ret, fwd |-> r.fwd, atcall |-> r.atcall,
     sel |-> sel, undoes |-> undoes]

NoCall ==
    Called("init", "none", 0, "none", Raised("none", EmptyMap, EmptyMap), {}, FALSE)

\* the call's outcome r becomes the state; last records the call
Return(op, obj, events, data, r, sel) ==
    /\ fd_to_key' = r.map
    /\ backend' = r.bmap
    /\ last' = Called(op, obj, events, data, r, sel,
                      /\ op = "unregister"
                      /\ last.op = "register" /\ last.exc = "none"
                      /\ last.obj = obj)

\* selector.register(obj, events, data)
DoRegister(H, E, D) ==
    /\ \E obj \in H, events \in E, data \in D :
         Return("register", obj, events, data,
                Register(fd_to_key, backend, hasBackend, obj, events, data), {})
    /\ UNCHANGED <<classified, hasBackend, allocVars, loopVars>>

\* selector.unregister(obj)
DoUnregister(H) ==
    /\ \E obj \in H :
         Return("unregister", obj, 0, "none",
                Unregister(fd_to_key, backend, hasBackend, obj), {})
    /\ UNCHANGED <<classified, hasBackend, allocVars, loopVars>>

\* selector.modify(obj, events, data)
DoModify(H, E, D) ==
    /\ \E obj \in H, events \in E, data \in D :
         Return("modify", obj, events, data,
                Modify(fd_to_key, backend, hasBackend, obj, events, data), {})
    /\ UNCHANGED <<classified, hasBackend, allocVars, loopVars>>

\* selector.select(timeout); osready is the readiness the wrapped selector
\* finds
DoSelect ==
    /\ \E osready \in 1..3 :
         Return("select", "none", osready, "none",
                Outcome("none", NoKey, fd_to_key, backend, hasBackend, NoKey),
                Select(backend, hasBackend, osready))
    /\ UNCHANGED <<classified, hasBackend, allocVars, loopVars>>

\* selector.close()
DoClose ==
    /\ \E bfail \in BOOLEAN :
         Return("close", "none", 0, "none",
                Close(fd_to_key, backend, hasBackend, bfail), {})
    /\ UNCHANGED <<classified, hasBackend, allocVars, loopVars>>

----------------------------------------------------------------------------
(* Event injection and the loop's dispatch cycle *)

\* the entries of m at the descriptors of S, as the list _process_events takes
RECURSIVE EventList(_, _, _)
EventList(m, S, event) ==
    IF S = {} THEN <<>>
    ELSE LET k == CHOOSE x \in S : TRUE
         IN  <<[key |-> m[k], event |-> event]>> \o EventList(m, S \ {k}, event)

\* _set_event_ready that feeds the event for every registered entry
SetEventReadyAll(m, obj, event) ==
    IF _fileobj_lookup(m, obj).exc # "none"
    THEN [exc |-> _fileobj_lookup(m, obj).exc, events |-> <<>>]
    ELSE [exc |-> "none", events |-> EventList(m, {k \in Fds : m[k] # NoKey}, event)]

\* _set_event_ready that raises KeyError for a handle without an entry
SetEventReadyStrict(m, obj, event) ==
    LET l == _fileobj_lookup(m, obj)
    IN  IF l.exc # "none" THEN [exc |-> l.exc, events |-> <<>>]
        ELSE IF Has(m, l.val)
             THEN [exc |-> "none", events |-> <<[key |-> m[l.val], event |-> event]>>]
             ELSE [exc |-> "KeyError", events |-> <<>>]

\* _set_event_ready that feeds the event only to an entry whose interests
\* include it
SetEventReadyIfInterested(m, obj, event) ==
    LET l == _fileobj_lookup(m, obj)
    IN  IF l.exc # "none" THEN [exc |-> l.exc, events |-> <<>>]
        ELSE IF Has(m, l.val) /\ BitAnd(m[l.val].events, event) # 0
             THEN [exc |-> "none", events |-> <<[key |-> m[l.val], event |-> event]>>]
             ELSE [exc |-> "none", events |-> <<>>]

\* _set_event_ready(fileobj, loop, event): the list handed to
\* loop._process_events (empty when the function returns without calling
\* it), or the exception raised by the lookup
_set_event_ready(m, obj, event) ==
    LET l == _fileobj_lookup(m, obj)
    IN  IF l.exc # "none" THEN [exc |-> l.exc, events |-> <<>>]
        ELSE IF Has(m, l.val)
             THEN [exc |-> "none", events |-> <<[key |-> m[l.val], event |-> event]>>]
             ELSE [exc |-> "none", events |-> <<>>]

\* an injection that calls _set_event_ready on the calling thread
SetReadySync(rdy, m, obj, event, sched) ==
    [ready |-> rdy,
     events |-> _set_event_ready(m, obj, event).events]

\* set_read_ready / set_write_ready: loop.call_soon_threadsafe(
\* _set_event_ready, fileobj, loop, event).  sched remembers when the task
\* was handed over: "idle" with no dispatch cycle in progress, "cycle"
\* during the cycle in progress, "waited" during a cycle that has since
\* ended.  events is what the calling thread itself passes to
\* loop._process_events.  seen is not data of the program: it can hold,
\* for the properties, the entry the handle had when the call was made.
SetReady(rdy, m, obj, event, sched) ==
    [ready |-> Append(rdy, [obj |-> obj, event |-> event, sched |-> sched,
                            seen |-> NoKey]),
     events |-> <<>>]

NoTask == [obj |-> "none", event |-> 0, exc |-> "none", sched |-> "idle",
           events |-> <<>>, seen |-> NoKey]

\* the injection's outcome r becomes the state
Injected(r) == ready' = r.ready /\ callerFed' = r.events

\* set_read_ready(obj, loop) / set_write_ready(obj, loop), from any thread
Notify(H) ==
    /\ Len(ready) < MaxReady
    /\ \E obj \in H, event \in {EVENT_READ, EVENT_WRITE} :
         Injected(SetReady(ready, fd_to_key, obj, event,
                           IF dispatching THEN "cycle" ELSE "idle"))
    /\ UNCHANGED <<classified, ntodo, dispatching, lastTask, allocVars, selVars>>

\* the loop starts a dispatch cycle: it will run the tasks that are ready now
StartCycle ==
    /\ ~dispatching
    /\ dispatching' = TRUE
    /\ ntodo' = Len(ready)
    /\ UNCHANGED <<classified, ready, callerFed, lastTask, allocVars, selVars>>

\* the task t has run with outcome r
Ran(t, r) ==
    lastTask' = [obj |-> t.obj, event |-> t.event, exc |-> r.exc,
                 sched |-> t.sched, events |-> r.events, seen |-> t.seen]

\* the run of a task that also removes the entry it delivered
RunTaskConsume ==
    /\ dispatching
    /\ ntodo > 0
    /\ Ran(Head(ready), _set_event_ready(fd_to_key, Head(ready).obj, Head(ready).event))
    /\ ready' = Tail(ready)
    /\ ntodo' = ntodo - 1
    /\ fd_to_key' = [k \in Fds |->
                       IF _fileobj_lookup(fd_to_key, Head(ready).obj).val = k
                       THEN NoKey ELSE fd_to_key[k]]
    /\ UNCHANGED <<classified, dispatching, callerFed, allocVars, hasBackend,
                   backend, last>>

\* the loop runs the next task of the cycle: _set_event_ready(obj, loop, event)
RunTask ==
    /\ dispatching
    /\ ntodo > 0
    /\ Ran(Head(ready), _set_event_ready(fd_to_key, Head(ready).obj, Head(ready).event))
    /\ ready' = Tail(ready)
    /\ ntodo' = ntodo - 1
    /\ UNCHANGED <<classified, dispatching, callerFed, allocVars, selVars>>

\* the cycle ends when the tasks it started with have run; the tasks handed
\* over meanwhile wait for the next cycle, none is in progress any more
EndCycle ==
    /\ dispatching
    /\ ntodo = 0
    /\ dispatching' = FALSE
    /\ ready' = [i \in 1..Len(ready) |->
                   [ready[i] EXCEPT !.sched = IF @ = "cycle" THEN "waited" ELSE @]]
    /\ UNCHANGED <<classified, ntodo, callerFed, lastTask, allocVars, selVars>>

----------------------------------------------------------------------------
Init ==
    /\ next_fd = 0
    /\ calls = <<>>
    /\ hasBackend \in BOOLEAN
    /\ fd_to_key = EmptyMap
    /\ backend = EmptyMap
    /\ last = NoCall
    /\ ready = <<>>
    /\ ntodo = 0
    /\ dispatching = FALSE
    /\ callerFed = <<>>
    /\ lastTask = NoTask
    /\ classified = NotClassified

NextAlloc == Allocate \/ FromValue

SpecAlloc == Init /\ [][NextAlloc]_vars

\* identities are made and objects are classified by fd() and isfilemock()
NextClassify == Allocate \/ FromValue \/ CallFd \/ CallIsFileMock

SpecClassify == Init /\ [][NextClassify]_vars

\* the handles, interests and data the selector is called with
SelObjects == {"mock", "sock", "int0", "closed", "badfile"}
Events == {0, EVENT_READ, EVENT_WRITE}

Next ==
    \/ DoRegister(SelObjects, Events, Data)
    \/ DoUnregister(SelObjects)
    \/ DoModify(SelObjects, Events, Data)
    \/ DoSelect
    \/ DoClose

Spec == Init /\ [][Next]_vars

\* the loop with injections, and the registrations changing under it; the
\* selector's calls are not recorded in last here
LoopObjects == {"mock", "sock", "closed"}

\* the call's outcome r becomes the state
Returned(r) == fd_to_key' = r.map /\ backend' = r.bmap

LoopRegister ==
    /\ \E obj \in {"mock", "sock"} :
         Returned(Register(fd_to_key, backend, hasBackend, obj, EVENT_READ, "a"))
    /\ UNCHANGED <<classified, hasBackend, last, allocVars, loopVars>>

LoopUnregister ==
    /\ \E obj \in {"mock", "sock"} :
         Returned(Unregister(fd_to_key, backend, hasBackend, obj))
    /\ UNCHANGED <<classified, hasBackend, last, allocVars, loopVars>>

LoopModify ==
    /\ \E obj \in {"mock", "sock"} :
         Returned(Modify(fd_to_key, backend, hasBackend, obj, EVENT_WRITE, "b"))
    /\ UNCHANGED <<classified, hasBackend, last, allocVars, loopVars>>

NextLoop ==
    \/ LoopRegister
    \/ LoopUnregister
    \/ LoopModify
    \/ Notify(LoopObjects)
    \/ StartCycle
    \/ RunTask
    \/ EndCycle

SpecLoop == Init /\ [][NextLoop]_vars

\* the loop is running (run_forever): it keeps starting dispatch cycles,
\* running the tasks of the cycle in progress and ending it
LoopFairness ==
    /\ WF_vars(StartCycle)
    /\ WF_vars(RunTask)
    /\ WF_vars(EndCycle)

SpecLoopFair == SpecLoop /\ LoopFairness

----------------------------------------------------------------------------
(* Vocabulary of the properties: the objects that are handles, and the     *)
(* identity each has in the unified map.                                   *)

Handles == {"mock", "fdesc", "sock", "int0"}

Ident(h) == IF h \in {"mock", "fdesc"} THEN Syn(0) ELSE Real(0)

IsSynthetic(h) == h \in {"mock", "fdesc"}

\* the valid interest sets: readable, writable or both
Interests == 1..3

\* the step is the run of a scheduled task by the loop
RanTask == ntodo' = ntodo - 1

\* the injection's outcome r becomes the state, and the task it appended
\* remembers the entry e
InjectedSeen(r, e) ==
    /\ ready' = [r.ready EXCEPT ![Len(r.ready)].seen = e]
    /\ callerFed' = r.events

\* set_read_ready(obj, loop) / set_write_ready(obj, loop) as in Notify, with
\* the entry the handle has at the call remembered in the task
NotifySeen(P) ==
    /\ Len(ready) < MaxReady
    /\ \E p \in P :
         InjectedSeen(SetReady(ready, fd_to_key, p[1], p[2],
                               IF dispatching THEN "cycle" ELSE "idle"),
                      fd_to_key[Ident(p[1])])
    /\ UNCHANGED <<classified, ntodo, dispatching, lastTask, allocVars, selVars>>

\* the injections called there: the socket readable, the mock writable
SeenInjections == {<<"sock", EVENT_READ>>, <<"mock", EVENT_WRITE>>}

\* the loop with injections for handles, each remembering the registration
\* it was called under, and the registrations changing under it
NextLoopSeen ==
    \/ LoopRegister
    \/ LoopUnregister
    \/ LoopModify
    \/ NotifySeen(SeenInjections)
    \/ StartCycle
    \/ RunTask
    \/ EndCycle

SpecLoopSeen == Init /\ [][NextLoopSeen]_vars

----------------------------------------------------------------------------
(* C1: an injection never dispatches on the calling thread: the call feeds *)
(* nothing to the loop's event processing itself and changes nothing but   *)
(* the loop's queue of scheduled tasks, and no task runs inside the        *)
(* dispatch cycle that was in progress when it was handed over.            *)
C1_NeverSynchronous ==
    /\ [](callerFed = <<>> /\ lastTask.sched # "cycle")
    /\ [][Len(ready') > Len(ready) =>
            /\ ready' = Append(ready, ready'[Len(ready')])
            /\ ready'[Len(ready')].sched = (IF dispatching THEN "cycle" ELSE "idle")
            /\ lastTask' = lastTask
            /\ ntodo' = ntodo]_vars

\* a task handed over during a dispatch cycle has run, in a later cycle
C1_Witness == lastTask.sched = "waited" /\ lastTask.events # <<>>

(* C2: a scheduled readable injection for a handle, when the loop runs it, *)
(* feeds exactly one event, the handle's current entry with the readable   *)
(* event, and nothing for any other handle; if the handle has no entry it  *)
(* feeds nothing; in both cases the task raises no error.                  *)
C2_InjectionDelivered ==
    [][(RanTask /\ Head(ready).event = EVENT_READ /\ Head(ready).obj \in Handles) =>
          LET k == Ident(Head(ready).obj)
          IN  /\ lastTask'.exc = "none"
              /\ lastTask'.events =
                    IF fd_to_key[k] # NoKey
                    THEN <<[key |-> fd_to_key[k], event |-> EVENT_READ]>>
                    ELSE <<>>]_vars

\* the injection for the synthetic handle was delivered while the real
\* handle was registered too
C2_Witness ==
    /\ lastTask.obj = "mock" /\ lastTask.event = EVENT_READ
    /\ Len(lastTask.events) = 1
    /\ fd_to_key[Real(0)] # NoKey
    /\ fd_to_key[Syn(0)] # NoKey

(* C3: on a multiplexer wrapping a real selector, every registration the   *)
(* real selector holds is mirrored in the unified map under the descriptor *)
(* the real selector returned, and the unified map holds no entry for a    *)
(* real descriptor that the real selector does not hold.                   *)
C3_MirrorInvariant ==
    hasBackend =>
        \A k \in Fds :
            /\ backend[k] # NoKey => (fd_to_key[k] = backend[k] /\ backend[k].fd = k)
            /\ (k[1] = "int" /\ fd_to_key[k] # NoKey) => backend[k] = fd_to_key[k]

\* a forwarded modify has succeeded and the real selector holds its entry
C3_Witness ==
    /\ hasBackend /\ last.op = "modify" /\ last.fwd /\ last.exc = "none"
    /\ backend[Real(0)] # NoKey

(* C4: register of a handle whose identity already has an entry, with a    *)
(* valid interest set, fails with KeyError (AlreadyRegistered) on the      *)
(* local and on the forwarded path and leaves the unified map and the real *)
(* selector unchanged; every entry is stored under its own identity, so    *)
(* the map holds at most one entry per identity.                           *)
C4_AlreadyRegistered ==
    /\ [](\A k \in Fds : fd_to_key[k] # NoKey => fd_to_key[k].fd = k)
    /\ [][(last'.op = "register" /\ last'.obj \in Handles
           /\ last'.events \in Interests /\ fd_to_key[Ident(last'.obj)] # NoKey) =>
            /\ last'.exc = "KeyError"
            /\ fd_to_key' = fd_to_key
            /\ backend' = backend]_vars

\* a forwarded register was refused while the synthetic handle of the same
\* value was registered too
C4_Witness ==
    /\ hasBackend /\ last.op = "register" /\ last.fwd /\ last.exc = "KeyError"
    /\ fd_to_key[Real(0)] # NoKey /\ fd_to_key[Syn(0)] # NoKey

(* C5: unregister of a handle without an entry fails with KeyError         *)
(* (NotRegistered) and changes nothing; unregister of a registered handle  *)
(* returns its entry and removes that entry and no other, from the unified *)
(* map and, on the forwarded path, from the real selector.                 *)
C5_Unregister ==
    [][(last'.op = "unregister" /\ last'.obj \in Handles) =>
          LET k == Ident(last'.obj)
              forwarded == hasBackend /\ ~IsSynthetic(last'.obj)
          IN  IF fd_to_key[k] = NoKey
              THEN /\ last'.exc = "KeyError"
                   /\ fd_to_key' = fd_to_key
                   /\ backend' = backend
              ELSE /\ last'.exc = "none"
                   /\ last'.ret = fd_to_key[k]
                   /\ fd_to_key' = [fd_to_key EXCEPT ![k] = NoKey]
                   /\ backend' = IF forwarded THEN [backend EXCEPT ![k] = NoKey]
                                              ELSE backend
                   /\ last'.fwd = forwarded]_vars

\* a forwarded unregister removed the real handle's entry and left the
\* synthetic one of the same value
C5_Witness ==
    /\ hasBackend /\ last.op = "unregister" /\ last.fwd /\ last.exc = "none"
    /\ fd_to_key[Syn(0)] # NoKey /\ fd_to_key[Real(0)] = NoKey

(* C6: after close() the unified map is empty, whether the real selector's *)
(* close returned or raised.                                               *)
C6_CloseTotal ==
    last.op = "close" => fd_to_key = EmptyMap

(* C7: a forwarded modify calls the real selector with no entry in the     *)
(* unified map for the handle's descriptor, and when the real selector     *)
(* returns, the unified map differs from the one before the call exactly   *)
(* in holding the returned entry, which carries the new interests and      *)
(* data, under the returned descriptor.                                    *)
C7_ModifyClearThenForward ==
    [][(last'.op = "modify" /\ last'.fwd) =>
          /\ last'.atcall = NoKey
          /\ last'.exc = "none" =>
                /\ fd_to_key' = [fd_to_key EXCEPT ![last'.ret.fd] = last'.ret]
                /\ backend'[last'.ret.fd] = last'.ret
                /\ last'.ret.events = last'.events
                /\ last'.ret.data = last'.data]_vars

\* a forwarded modify of a mirrored registration returned with new interests
C7_Witness ==
    /\ last.op = "modify" /\ last.fwd /\ last.exc = "none"
    /\ last.events = EVENT_WRITE /\ last.data = "b"
    /\ fd_to_key[Real(0)] = last.ret

(* C8: select returns nothing without a real selector and the real         *)
(* selector's result otherwise; no returned entry belongs to a synthetic   *)
(* handle; select changes neither map.                                     *)
C8_SelectNeverSynthetic ==
    /\ [](last.op = "select" =>
            /\ last.sel = (IF hasBackend THEN BackendSelect(backend, last.events) ELSE {})
            /\ \A e \in last.sel : e[1].fd[1] = "int" /\ ~IsSynthetic(e[1].fileobj))
    /\ [][last'.op = "select" => (fd_to_key' = fd_to_key /\ backend' = backend)]_vars

\* select reported the real handle while a synthetic handle with matching
\* interests was registered
C8_Witness ==
    /\ last.op = "select" /\ last.sel # {}
    /\ fd_to_key[Syn(0)] # NoKey
    /\ BitAnd(fd_to_key[Syn(0)].events, last.events) # 0

(* C9 as stated: every identity returned by FileDescriptor() or            *)
(* FileDescriptor(n) differs from every identity returned before and from  *)
(* every n supplied before.                                                *)
C9_AllDistinct ==
    \A j \in 1..Len(calls) : \A i \in 1..(j - 1) :
        /\ calls[j].ret # calls[i].ret
        /\ calls[i].op = "fromValue" => calls[j].ret # calls[i].n

(* C9 amended: every identity returned by FileDescriptor() differs from    *)
(* every identity returned before and from every n supplied before.        *)
C9_AllocateDistinct ==
    \A j \in 1..Len(calls) : \A i \in 1..(j - 1) :
        calls[j].op = "allocate" =>
            /\ calls[j].ret # calls[i].ret
            /\ calls[i].op = "fromValue" => calls[j].ret # calls[i].n

\* FileDescriptor() was called after a FileDescriptor() and a FileDescriptor(n)
\* with n above the watermark
C9_Witness ==
    /\ Len(calls) >= 3
    /\ calls[1].op = "allocate"
    /\ calls[2].op = "fromValue" /\ calls[2].n = MaxN
    /\ calls[3].op = "allocate"

(* C10: next_fd is greater than every identity issued and every n          *)
(* supplied, FileDescriptor() returns more than every earlier call         *)
(* returned, and next_fd never decreases.                                  *)
C10_Watermark ==
    /\ [](\A j \in 1..Len(calls) :
            /\ next_fd > calls[j].ret
            /\ calls[j].op = "allocate" =>
                  \A i \in 1..(j - 1) : calls[j].ret > calls[i].ret)
    /\ [][next_fd' >= next_fd]_vars

\* FileDescriptor(n) moved the watermark past n and FileDescriptor() followed
C10_Witness ==
    /\ Len(calls) >= 2
    /\ calls[Len(calls) - 1].op = "fromValue" /\ calls[Len(calls) - 1].n = MaxN
    /\ calls[Len(calls)].op = "allocate" /\ calls[Len(calls)].ret = MaxN + 1

(* C11: a synthetic identity and the plain integer of the same value are   *)
(* equal by value but distinct keys of the unified map: unregistering or   *)
(* modifying a handle leaves the entry of the handle of the other kind,    *)
(* synthetic or real, exactly as it was, in the unified map and in the     *)
(* real selector, so both can stay registered at the same time.            *)
C11_DistinctKeys ==
    /\ [](Syn(0)[2] = Real(0)[2] /\ Syn(0) # Real(0))
    /\ [][(last'.op \in {"unregister", "modify"} /\ last'.obj \in Handles) =>
            \A g \in Handles :
                IsSynthetic(g) # IsSynthetic(last'.obj) =>
                    /\ fd_to_key'[Ident(g)] = fd_to_key[Ident(g)]
                    /\ backend'[Ident(g)] = backend[Ident(g)]]_vars

\* on a multiplexer wrapping a real selector the synthetic handle was
\* modified while the socket of the same value was registered, and both
\* entries are there
C11_Witness ==
    /\ hasBackend /\ last.op = "modify" /\ last.obj = "mock" /\ last.exc = "none"
    /\ fd_to_key[Syn(0)] # NoKey /\ fd_to_key[Syn(0)].fileobj = "mock"
    /\ fd_to_key[Real(0)] # NoKey /\ fd_to_key[Real(0)].fileobj = "sock"
    /\ backend[Real(0)] = fd_to_key[Real(0)]

(* C12: register(handle, ...) that returns, followed at once by            *)
(* unregister(handle), is a round trip, for synthetic and for forwarded    *)
(* handles: the register added the returned entry under a descriptor that  *)
(* had none and changed nothing else, the unregister returns and removes   *)
(* that entry and nothing else, from the unified map and from the real     *)
(* selector, and after it a register of the handle with any valid          *)
(* interests succeeds.                                                     *)
C12_RoundTrip ==
    /\ [][(last'.op = "register" /\ last'.obj \in Handles /\ last'.exc = "none") =>
            /\ fd_to_key[last'.ret.fd] = NoKey
            /\ fd_to_key' = [fd_to_key EXCEPT ![last'.ret.fd] = last'.ret]
            /\ IF last'.fwd
               THEN /\ backend[last'.ret.fd] = NoKey
                    /\ backend' = [backend EXCEPT ![last'.ret.fd] = last'.ret]
               ELSE backend' = backend]_vars
    /\ [][(last'.undoes /\ last'.obj \in Handles) =>
            /\ last'.exc = "none"
            /\ last'.fwd = last.fwd
            /\ fd_to_key' = [fd_to_key EXCEPT ![last.ret.fd] = NoKey]
            /\ backend' = (IF last.fwd THEN [backend EXCEPT ![last.ret.fd] = NoKey]
                                       ELSE backend)
            /\ \A e \in Interests, d \in Data :
                 Register(fd_to_key', backend', hasBackend, last'.obj, e, d).exc
                    = "none"]_vars

\* a forwarded register of the socket was undone by the next call while the
\* synthetic handle of the same value stayed registered
C12_Witness ==
    /\ last.undoes /\ last.obj = "sock" /\ last.fwd /\ last.exc = "none"
    /\ fd_to_key[Real(0)] = NoKey /\ backend[Real(0)] = NoKey
    /\ fd_to_key[Syn(0)] # NoKey

(* C13: under a running loop every scheduled injection is resolved.  The   *)
(* loop runs the oldest pending task again and again, unless from some     *)
(* point on no task is pending; a pending task leaves the queue only by    *)
(* being run, and until then keeps its place, handle and direction (none   *)
(* is cancelled, dropped by a timeout or overtaken), so each is run after  *)
(* the tasks ahead of it; the run of a task for a handle raises nothing    *)
(* and either feeds one event to the loop's event processing, when the     *)
(* handle has an entry, or feeds none.                                     *)
C13_EventuallyResolved ==
    /\ \/ []<><<RanTask /\ ready' = Tail(ready)>>_vars
       \/ <>[](ready = <<>>)
    /\ [][/\ Len(ready') < Len(ready) =>
                /\ RanTask /\ ready' = Tail(ready)
                /\ lastTask'.obj = Head(ready).obj
                /\ lastTask'.event = Head(ready).event
          /\ Len(ready') >= Len(ready) =>
                \A i \in 1..Len(ready) :
                    /\ ready'[i].obj = ready[i].obj
                    /\ ready'[i].event = ready[i].event
          /\ (RanTask /\ Head(ready).obj \in Handles) =>
                /\ lastTask'.exc = "none"
                /\ Len(lastTask'.events) =
                      (IF fd_to_key[Ident(Head(ready).obj)] # NoKey THEN 1 ELSE 0)]_vars

\* an injection for a handle that had no entry when the task ran was
\* dropped without an error, and no task is pending
C13_Witness ==
    /\ lastTask.obj = "sock" /\ lastTask.exc = "none" /\ lastTask.events = <<>>
    /\ lastTask.event = EVENT_WRITE
    /\ ready = <<>> /\ ~dispatching

(* C14: isfilemock(obj) raises for no object: it returns true when obj is  *)
(* a FileDescriptor or obj.fileno() returns one, and false for every other *)
(* object, one without fileno() and one whose fileno() raises included.    *)
C14_NeverRaises ==
    classified.fn = "isfilemock" =>
        /\ classified.exc = "none"
        /\ classified.bool =
              \/ IsFileDescriptor(classified.obj)
              \/ Fileno(classified.obj).exc = "none"
                 /\ Fileno(classified.obj).val[1] = "syn"

(* C15: fd(obj) returns obj when obj is a FileDescriptor, else what        *)
(* obj.fileno() returns, and raises ValueError when obj is no              *)
(* FileDescriptor and fileno() is missing or raises; a plain int is always *)
(* refused with ValueError.                                                *)
C15_Resolve ==
    classified.fn = "fd" =>
        /\ classified.obj = "fdesc" =>
              classified.exc = "none" /\ classified.key = <<"syn", 0>>
        /\ classified.obj \in {"mock", "sock", "closed"} =>
              /\ classified.exc = "none"
              /\ classified.key = Fileno(classified.obj).val
        /\ classified.obj \in {"str", "badfile", "int0"} =>
              classified.exc = "ValueError" /\ classified.key = NoFd
        /\ (IsInt(classified.obj) /\ ~IsFileDescriptor(classified.obj)) =>
              classified.exc = "ValueError"

\* fd() was called with the plain int 0 and raised ValueError
C15_Witness ==
    /\ classified.fn = "fd" /\ classified.obj = "int0"
    /\ classified.exc = "ValueError"
    /\ Len(calls) > 0

(* C16: FileDescriptor(n) with a negative n is refused: the call returns   *)
(* no identity of value n and leaves next_fd as it was.                    *)
C16_NegativeRejected ==
    [][(/\ Len(calls') = Len(calls) + 1
        /\ calls'[Len(calls')].op = "fromValue"
        /\ calls'[Len(calls')].n < 0) =>
            /\ calls'[Len(calls')].ret # calls'[Len(calls')].n
            /\ next_fd' = next_fd]_vars

(* C17: modify(handle, interests, data) of a synthetic handle, or of any   *)
(* handle on a multiplexer without a real selector, never calls the real   *)
(* selector.  With an entry for the handle it returns the entry the        *)
(* unified map then holds under the handle's identity, which carries the   *)
(* new interests and data, and every other entry is as before; without an  *)
(* entry it fails with KeyError (NotRegistered) and changes nothing.       *)
C17_ModifyLocal ==
    [][(/\ last'.op = "modify" /\ last'.obj \in Handles
        /\ last'.events \in Interests
        /\ (IsSynthetic(last'.obj) \/ ~hasBackend)) =>
          LET k == Ident(last'.obj)
          IN  /\ ~last'.fwd
              /\ backend' = backend
              /\ \A j \in Fds \ {k} : fd_to_key'[j] = fd_to_key[j]
              /\ IF fd_to_key[k] = NoKey
                 THEN last'.exc = "KeyError" /\ fd_to_key' = fd_to_key
                 ELSE /\ last'.exc = "none"
                      /\ fd_to_key'[k] # NoKey
                      /\ fd_to_key'[k] = last'.ret
                      /\ last'.ret.fd = k
                      /\ last'.ret.events = last'.events
                      /\ last'.ret.data = last'.data]_vars

\* on a multiplexer wrapping a real selector the synthetic handle's entry
\* took new interests and data while the socket's entry stayed mirrored
C17_Witness ==
    /\ hasBackend /\ last.op = "modify" /\ last.obj = "mock" /\ ~last.fwd
    /\ last.exc = "none" /\ last.events = EVENT_WRITE /\ last.data = "b"
    /\ fd_to_key[Syn(0)] = last.ret /\ last.ret.events = EVENT_WRITE
    /\ backend[Real(0)] # NoKey /\ backend[Syn(0)] = NoKey

(* C18: event injection never changes registration state.  Neither the    *)
(* set_read_ready / set_write_ready call nor the run of the scheduled task *)
(* changes the unified map, the real selector's map or the wrapped         *)
(* selector; and the call does not depend on the map: it appends the task  *)
(* it would append with an empty map and feeds no event itself.            *)
C18_InjectionFrame ==
    [][/\ (Len(ready') > Len(ready) \/ RanTask) =>
             /\ fd_to_key' = fd_to_key
             /\ backend' = backend
             /\ hasBackend' = hasBackend
       /\ Len(ready') > Len(ready) =>
             /\ callerFed' = <<>>
             /\ \E obj \in LoopObjects, event \in {EVENT_READ, EVENT_WRITE} :
                  ready' = SetReady(ready, EmptyMap, obj, event,
                                    IF dispatching THEN "cycle" ELSE "idle").ready]_vars

\* a task delivered the entry of the socket, the entry is still in both
\* maps as delivered, and a further injection is pending
C18_Witness ==
    /\ lastTask.obj = "sock" /\ Len(lastTask.events) = 1
    /\ fd_to_key[Real(0)] = lastTask.events[1].key
    /\ backend[Real(0)] = lastTask.events[1].key
    /\ Len(ready) > 0

(* C19: an injected event is resolved against the registration the handle  *)
(* has when the loop runs the task, whatever it had when the injection was  *)
(* called: the task feeds exactly one event, the entry the unified map      *)
(* holds at that moment with the direction that was asked for, whether or   *)
(* not the entry's interests include that direction, and feeds nothing when *)
(* the map holds no entry then.                                             *)
C19_ResolvedAtRun ==
    [][(RanTask /\ Head(ready).obj \in Handles) =>
          LET k == Ident(Head(ready).obj)
          IN  /\ lastTask'.exc = "none"
              /\ lastTask'.seen = Head(ready).seen
              /\ lastTask'.events =
                    IF fd_to_key[k] # NoKey
                    THEN <<[key |-> fd_to_key[k], event |-> Head(ready).event]>>
                    ELSE <<>>]_vars

\* a readable injection called while the socket was registered for reading
\* was delivered, after a modify, with the entry registered for writing only
C19_Witness ==
    /\ lastTask.obj = "sock" /\ lastTask.event = EVENT_READ
    /\ lastTask.seen # NoKey /\ lastTask.seen.events = EVENT_READ
    /\ Len(lastTask.events) = 1
    /\ lastTask.events[1].key # lastTask.seen
    /\ lastTask.events[1].key.events = EVENT_WRITE
    /\ lastTask.events[1].key.data = "b"
    /\ lastTask.events[1].event = EVENT_READ

(* C20: when a forwarded modify of a handle fails in the real selector,    *)
(* the caller gets the real selector's error as it is, and the unified map *)
(* is left without an entry for the handle's descriptor: the mirror        *)
(* deleted before forwarding is not put back.  The other entries are as    *)
(* before and the real selector's map is as its failed modify left it.     *)
C20_FailedForwardedModify ==
    [][(/\ last'.op = "modify" /\ last'.fwd /\ last'.exc # "none"
        /\ last'.obj \in Handles) =>
          /\ last'.exc = BaseModify(backend, last'.obj, last'.events, last'.data,
                                    FALSE, BaseLookup(backend, last'.obj)).exc
          /\ backend' = BaseModify(backend, last'.obj, last'.events, last'.data,
                                   FALSE, BaseLookup(backend, last'.obj)).map
          /\ fd_to_key'[Ident(last'.obj)] = NoKey
          /\ \A j \in Fds \ {Ident(last'.obj)} : fd_to_key'[j] = fd_to_key[j]
          /\ last'.ret = NoKey]_vars

\* the forwarded modify of the registered socket was refused by the real
\* selector for its interest set, and the socket's mirror is gone while the
\* synthetic handle's entry is still there
C20_Witness ==
    /\ last.op = "modify" /\ last.fwd /\ last.exc = "ValueError"
    /\ last.obj = "sock" /\ last.events = 0
    /\ fd_to_key[Real(0)] = NoKey
    /\ fd_to_key[Syn(0)] # NoKey

====
